---- MODULE Spec2Model ----
(***************************************************************************)
(* Orbuculum: the ingest -> ring -> distribution pipeline of orbuculum.c   *)
(* (the four ingest drivers, the distribution thread _processBlocks, the   *)
(* TPIU demultiplexer _stripTPIU/_purgeBlock and the exit handler).        *)
(*                                                                         *)
(* Families of behaviours described over one set of variables:             *)
(*   SpecStart  main from the command line to the dispatch of the driver,  *)
(*              with the exit path;                                        *)
(*   SpecRing   the ingest thread, the distribution thread and the exit    *)
(*              path, interleaved step by step, in pass-through mode;      *)
(*   SpecLive   SpecRing for the signalling drivers, with the scheduler's  *)
(*              fairness;                                                  *)
(*   SpecFair   SpecRing for every driver, with the same fairness;         *)
(*   SpecDemux  the distribution thread in TPIU mode, block by block;      *)
(*   SpecStats  the interval reporter against the distribution thread;     *)
(*   SpecFlow   the ORBFLOW codec of oflow.c;                              *)
(*   SpecExtent OFLOWgetFrameExtent of oflow.c, one call step by step.     *)
(***************************************************************************)
EXTENDS Integers, Sequences, FiniteSets, TLC

(***************************************************************************)
(* Bounds of the model.  The source has NUM_RAW_BLOCKS = 10                *)
(* (orbuculum.c:120) and TRANSFER_SIZE = 4096 (nwclient.h); the ring and   *)
(* the buffers behave the same for every size, and the model explores a    *)
(* small ring of small blocks so that wrap-around and lapping are reached. *)
(***************************************************************************)
NUM_RAW_BLOCKS == 2
TRANSFER_SIZE == 3
MaxReads == 3
MaxAcquire == 1
\* Bytes of one TPIU frame (16 in tpiuDecoder.h): a frame gives at most
\* TPIU_PACKET_LEN - 1 tuples.
TPIU_PACKET_LEN == 3
\* Tuples the decoder gives out in one behaviour.
MaxTuples == 5
\* ORBFLOW: bytes of a message given to OFLOWEncode, bytes of a decoded frame
\* COBS hands to _pumpcb, and ORBFLOW operations in one behaviour.
MaxMsgLen == 2
MaxFrameLen == 3
MaxCalls == 2
\* Characters of the channel list given with -t.
MaxListLen == 3
\* Blocks the distribution thread accounts for, and samples the interval
\* reporter takes, in one behaviour of SpecStats.
MaxBlocks == 3
MaxSamples == 2
\* OFLOWgetFrameExtent: bytes of the memory it is given, and bytes past that
\* memory a call is followed over.
MaxExtentLen == 3
MaxOverrun == 2

\* Constants of the program: SEGGER_PORT (orbuculum.c:96), NUM_TPIU_CHANNELS
\* (orbuculum.c:98), NWCLIENT_SERVER_PORT (nwclient.h), the default of
\* listenPort, and COBS_SYNC_CHAR (cobs.h), the frame delimiter.
SEGGER_PORT == 2332
NUM_TPIU_CHANNELS == 128
NWCLIENT_SERVER_PORT == 3443
COBS_SYNC_CHAR == 0

VARIABLES
    options,          \* struct Options: [driver, fileTerminate, useTPIU, channels]
    wp, rp,           \* _r.wp, _r.rp
    rawBlock,         \* _r.rawBlock[NUM_RAW_BLOCKS]: [fillLevel, buffer]
    ending,           \* _r.ending
    dataForClients,   \* _r.dataForClients: "free" or "held"
    pcP,              \* position of the main thread (the ingest driver)
    pcC,              \* position of the distribution thread
    pcX,              \* position of the process: "run", _doExit steps, "exited"
    rx,               \* the read in progress: [ret, n, fill]
    tx,               \* the nwclientSend in progress: [len]
    nreads, nacq,     \* reads issued, source acquisitions that failed
    sinkDown,         \* nwclientShutdown( _r.n ) has been called
    exitBy,           \* what called exit(): "none", "sigint", "return", "fatal"
    exitCode,         \* the value exit() is called with: what the driver returns
                      \* (main hands it to exit), genericsExit's or _intHandler's
    feederRet,        \* the value the driver returns to main
    published,        \* history: the blocks wp was advanced over
    sent,             \* history: the blocks passed to nwclientSend( _r.n, ...)
    consumed,         \* history: number of advances of rp
    lapped,           \* history: the producer has been NUM_RAW_BLOCKS ahead
    unsignalled,      \* history: wp advanced and dataForClients not yet released
    handler,          \* _r.handler[_r.numHandlers]: [channel, strippedBlock]
    tpiu,             \* _r.t, the TPIU decoder: [byteCount, failed]
    strip,            \* locals of _stripTPIU: [bytes, cachedChannel, chIndex, h, p, g, got]
    hsent,            \* history: per handler, the blocks passed to nwclientSend( h->n, ...)
    emitted,          \* history: the (stream id, data) tuples the decoder gave out
    oflow,            \* struct OFLOW: [perror, f]
    wire,             \* the encoded frame OFLOWEncode wrote, not yet pumped
    flowIn,           \* history: the channel and message of the OFLOWEncode last pumped
    last,             \* history: the last call of _pumpcb
    ncb,              \* history: number of calls of the packet callback t->cb
    ncalls,           \* ORBFLOW operations done
    argv,             \* the command line: [f, p, s, t, l]
    opts,             \* struct Options _options as _processOptions leaves it
    pcM,              \* position of main before the driver runs
    scan,             \* main's locals over the channel list: [c, x]
    sinkN,            \* _r.n: the port of the default sink, 0 for NULL
    sinks,            \* history: the ports nwclientStart opened a sink on
    threads,          \* the threads pthread_create started
    shut,             \* history: the sinks nwclientShutdown was called with
    intervalBytes,    \* _r.intervalBytes
    stats,            \* the reporter and the accounting step: [pcR, pcA, reg, fill,
                      \* sampled, accounted, nblocks, nsamples]
    usb,              \* usbFeeder's local handle (0 for NULL) and the device
                      \* handles libusb has open: [handle, open, opens]
    extent            \* a call of OFLOWgetFrameExtent: [pc, mem, inputEnc, len,
                      \* examined]

ringVars == <<options, wp, rp, rawBlock, ending, dataForClients, pcP, pcC, pcX,
              rx, tx, nreads, nacq, sinkDown, exitBy, exitCode, feederRet, published, sent,
              consumed, lapped, unsignalled>>

demuxVars == <<handler, tpiu, strip, hsent, emitted>>

flowVars == <<oflow, wire, flowIn, last, ncb, ncalls>>

startVars == <<argv, opts, pcM, scan, sinkN, sinks, threads, shut>>

statVars == <<intervalBytes, stats>>

usbVars == <<usb>>

extentVars == <<extent>>

vars == <<ringVars, demuxVars, flowVars, startVars, statVars, usbVars, extentVars>>

\* What the demultiplexer leaves alone.
ringData == <<options, wp, rp, rawBlock, ending, dataForClients, pcP, pcX, rx, tx,
              nreads, nacq, sinkDown, exitBy, exitCode, feederRet, published, sent, consumed, lapped,
              unsignalled>>

Slots == 0 .. (NUM_RAW_BLOCKS - 1)
Drivers == {"usb", "segger", "serial", "file"}

\* A byte instance is <<k, i>>: the i-th byte of the k-th read the driver issued;
\* <<0, 0>> is a byte of the zero-initialised static _r.
ZeroByte == <<0, 0>>
ZeroBlock == [fillLevel |-> 0, buffer |-> [i \in 1 .. TRANSFER_SIZE |-> ZeroByte]]

\* _stripTPIU is not running.
NoStrip ==
    [bytes |-> 0, cachedChannel |-> -1, chIndex |-> 0, h |-> -1, p |-> <<>>, g |-> 0,
     pInit |-> FALSE, got |-> FALSE]

\* struct OFLOWFrame before any frame was decoded, and the ORBFLOW state
\* after OFLOWInit (calloc).
NoFrame == [len |-> 0, tag |-> 0, sum |-> 0, d |-> <<>>, good |-> FALSE]
NoEncode == [channel |-> 0, inputMsg |-> <<>>]
NoCall == [from |-> "none", p |-> <<>>, perror |-> 0, ncb |-> 0, called |-> FALSE]
FlowIdle ==
    /\ oflow = [perror |-> 0, f |-> NoFrame]
    /\ wire = <<>>
    /\ flowIn = NoEncode
    /\ last = NoCall
    /\ ncb = 0
    /\ ncalls = 0

\* The index step of both ring pointers.
NextIndex(i) == (i + 1) % NUM_RAW_BLOCKS

\* The bytes of buffer that a length designates.  A length outside
\* 0..TRANSFER_SIZE designates the whole buffer and what follows it in memory;
\* the model keeps the part inside the buffer.
ViewLen(len) == IF len \in 0 .. TRANSFER_SIZE THEN len ELSE TRANSFER_SIZE
BlockView(b) == [len |-> b.fillLevel, bytes |-> SubSeq(b.buffer, 1, ViewLen(b.fillLevel))]

(***************************************************************************)
(* pthread_mutex_t dataForClients used as a binary signal: lock blocks     *)
(* until the mutex is free and takes it, unlock frees it.                  *)
(***************************************************************************)
MutexCanLock(m) == m = "free"
MutexLock(m) == "held"
\* A release that leaves the mutex as it was.
MutexUnlockNoop(m) == m
\* pthread_mutex_unlock( &_r.dataForClients )
MutexUnlock(m) == "free"

Running == pcX # "exited"

\* exit( code ) called by the main thread: the atexit handler _doExit runs
\* once.  A call of exit while another thread is already in exit is undefined:
\* the process ends with the code of either call.
CallExit(by, code) ==
    /\ pcP' = "stopped"
    /\ pcX' = IF pcX = "run" THEN "atexit" ELSE pcX
    /\ exitBy' = IF pcX = "run" THEN by ELSE exitBy
    /\ exitCode' \in IF pcX = "run" THEN {code} ELSE {exitCode, code}

\* What a driver returns: fileFeeder true (1132); usbFeeder and seggerFeeder
\* -1 when libusb_init, gethostbyname or socket failed (760, 897, 914); when
\* the loop ends on ending, seggerFeeder -2 (951), usbFeeder and serialFeeder
\* 0 (880, 1017).
FeederResult(driver, failed) ==
    IF driver = "file" THEN 1
    ELSE IF failed THEN -1
    ELSE IF driver = "segger" THEN -2
    ELSE 0

\* genericsExit( -4, ... ) of fileFeeder (1101), genericsExit( -3, ... ) and
\* genericsExit( ret, ... ) of serialFeeder (979-993).
FatalCode(driver) == IF driver = "file" THEN -4 ELSE -3

\* No call of OFLOWgetFrameExtent is in progress.
NoExtent == [pc |-> "idle", mem |-> <<>>, n |-> 0, inputEnc |-> 0, len |-> 0, examined |-> {}]

\* usbFeeder before any device was opened: handle is NULL.
NoUsb == [handle |-> 0, open |-> {}, opens |-> 0]

\* handle = libusb_open_device_with_vid_pid( ... ): a new open device handle,
\* or NULL when none of the devices of _deviceList is there.
UsbOpen(u, ok) ==
    IF ok
      THEN [handle |-> u.opens + 1, open |-> u.open \cup {u.opens + 1}, opens |-> u.opens + 1]
      ELSE [u EXCEPT !.handle = 0]

\* libusb_close( handle )
UsbClose(u) == [u EXCEPT !.open = @ \ {u.handle}]

\* An acquisition step may fail while the failure budget lasts.
AcquireResults == IF nacq < MaxAcquire THEN {TRUE, FALSE} ELSE {TRUE}
Failed(ok) == IF ok THEN nacq ELSE nacq + 1

(***************************************************************************)
(* The ingest drivers: usbFeeder, seggerFeeder, serialFeeder, fileFeeder.  *)
(***************************************************************************)

\* Before the driver's loop: fileFeeder opens the file (genericsExit(-4) on
\* failure), seggerFeeder resolves the host (return -1 on failure).
FeederStart ==
    /\ Running /\ pcP = "start"
    /\ \E ok \in AcquireResults :
         /\ nacq' = IF options.driver \in {"file", "segger"} THEN Failed(ok) ELSE nacq
         /\ IF options.driver = "file" /\ ~ok
              THEN CallExit("fatal", FatalCode(options.driver))
              ELSE /\ pcP' = IF options.driver = "file" THEN "read"
                             ELSE IF options.driver = "segger" /\ ~ok THEN "return"
                             ELSE "outer"
                   /\ UNCHANGED <<pcX, exitBy, exitCode>>
         /\ feederRet' = IF options.driver = "segger" /\ ~ok
                            THEN FeederResult(options.driver, TRUE) ELSE feederRet
    /\ UNCHANGED <<usbVars, extentVars, statVars, startVars, flowVars, demuxVars, options, wp, rp, rawBlock, ending, dataForClients, pcC, rx, tx,
                   nreads, sinkDown, published, sent, consumed, lapped, unsignalled>>

\* The head of the outer loop, while ( !r->ending ): libusb_init (usb),
\* socket (segger); serial goes on to open the port.
FeederOuter ==
    /\ Running /\ pcP = "outer"
    /\ \E ok \in AcquireResults :
         /\ nacq' = IF ~ending /\ options.driver \in {"usb", "segger"} THEN Failed(ok) ELSE nacq
         /\ pcP' = IF ending THEN "return"
                   ELSE IF options.driver \in {"usb", "segger"} /\ ~ok THEN "return"
                   ELSE "connect"
         /\ feederRet' = IF ending THEN FeederResult(options.driver, FALSE)
                          ELSE IF options.driver \in {"usb", "segger"} /\ ~ok
                            THEN FeederResult(options.driver, TRUE)
                          ELSE feederRet
    /\ UNCHANGED <<usbVars, extentVars, statVars, startVars, flowVars, demuxVars, options, wp, rp, rawBlock, ending, dataForClients, pcC, pcX, rx, tx,
                   nreads, sinkDown, exitBy, exitCode, published, sent, consumed, lapped, unsignalled>>

\* The loop that waits for the source: the device search of usbFeeder (which
\* does not test ending), connect of seggerFeeder, open of serialFeeder.
FeederConnect ==
    /\ Running /\ pcP = "connect"
    /\ \E ok \in AcquireResults :
         IF ending /\ options.driver # "usb"
           THEN /\ pcP' = IF options.driver = "segger" THEN "return" ELSE "config"
                /\ feederRet' = IF options.driver = "segger"
                                   THEN FeederResult(options.driver, FALSE) ELSE feederRet
                /\ nacq' = nacq
                /\ usb' = usb
           ELSE /\ pcP' = IF ~ok THEN "connect"
                          ELSE IF options.driver = "segger" THEN "read" ELSE "config"
                /\ feederRet' = feederRet
                /\ nacq' = Failed(ok)
                /\ usb' = IF options.driver = "usb" THEN UsbOpen(usb, ok) ELSE usb
    /\ UNCHANGED <<extentVars, statVars, startVars, flowVars, demuxVars, options, wp, rp, rawBlock, ending, dataForClients, pcC, pcX, rx, tx,
                   nreads, sinkDown, exitBy, exitCode, published, sent, consumed, lapped, unsignalled>>

\* After the source is open: usbFeeder gets the device, its descriptor and
\* claims the interface (continue on failure, which leaves handle as it is);
\* serialFeeder configures the port (genericsExit on failure).
FeederConfig ==
    /\ Running /\ pcP = "config"
    /\ \E ok \in AcquireResults :
         /\ nacq' = Failed(ok)
         /\ IF options.driver = "serial" /\ ~ok
              THEN CallExit("fatal", FatalCode(options.driver))
              ELSE /\ pcP' = IF ok THEN "read" ELSE "outer"
                   /\ UNCHANGED <<pcX, exitBy, exitCode>>
         /\ feederRet' = feederRet
    /\ UNCHANGED <<usbVars, extentVars, statVars, startVars, flowVars, demuxVars, options, wp, rp, rawBlock, ending, dataForClients, pcC, rx, tx,
                   nreads, sinkDown, published, sent, consumed, lapped, unsignalled>>

\* What one read of the source can give.  read(): ret is -1, 0 or the number
\* of bytes; libusb_bulk_transfer: ret and the number of bytes transferred.
\* fill is the value that ends up in rxBlock->fillLevel.  A read that gives
\* data gives one byte (a short read) or a full buffer.
ReadOutcomes(driver) ==
    IF driver = "usb"
      THEN {[ret |-> "ok", n |-> n, fill |-> n] : n \in {1, TRANSFER_SIZE}}
           \cup {[ret |-> "timeout", n |-> n, fill |-> n] : n \in {0, 1}}
           \cup {[ret |-> "error", n |-> 0, fill |-> 0]}
      ELSE {[ret |-> "ok", n |-> n, fill |-> n] : n \in {1, TRANSFER_SIZE}}
           \cup {[ret |-> "eof", n |-> 0, fill |-> 0]}
           \cup {[ret |-> "error", n |-> 0, fill |-> -1]}

\* The bytes a read leaves in the buffer: the first n are new.
Filled(buffer, n, id) ==
    [i \in 1 .. TRANSFER_SIZE |-> IF i <= n THEN <<id, i>> ELSE buffer[i]]

\* The head of the read loop, while ( !r->ending ), and the call of read or
\* libusb_bulk_transfer on &r->rawBlock[r->wp], which fills rxBlock->buffer.
ReadStart ==
    /\ Running /\ pcP = "read"
    /\ IF ending
         THEN /\ pcP' = "release"
              /\ UNCHANGED <<rx, nreads, rawBlock>>
         ELSE /\ nreads < MaxReads
              /\ \E o \in ReadOutcomes(options.driver) :
                   /\ rx' = o
                   /\ rawBlock' = [rawBlock EXCEPT ![wp].buffer = Filled(@, o.n, nreads + 1)]
              /\ nreads' = nreads + 1
              /\ pcP' = "store"
    /\ UNCHANGED <<usbVars, extentVars, statVars, startVars, flowVars, demuxVars, options, wp, rp, ending, dataForClients, pcC, pcX, tx,
                   nacq, sinkDown, exitBy, exitCode, feederRet, published, sent, consumed, lapped, unsignalled>>

\* A driver that advances wp whatever the read returned.
AfterReadPublishes(driver, fileTerminate, o) == "advance"

\* Where the driver goes once fillLevel is stored.
AfterRead(driver, fileTerminate, o) ==
    CASE driver = "file" ->
           IF o.fill = 0 THEN (IF fileTerminate THEN "release" ELSE "read") ELSE "advance"
      [] driver \in {"segger", "serial"} ->
           IF o.fill <= 0 THEN "release" ELSE "advance"
      [] OTHER ->
           IF o.ret = "error" THEN "release" ELSE "advance"

\* The read returns: rxBlock->fillLevel is stored and the result tested.
ReadReturn ==
    /\ Running /\ pcP = "store"
    /\ rawBlock' = [rawBlock EXCEPT ![wp].fillLevel = rx.fill]
    /\ pcP' = AfterRead(options.driver, options.fileTerminate, rx)
    /\ UNCHANGED <<usbVars, extentVars, statVars, startVars, flowVars, demuxVars, options, wp, rp, ending, dataForClients, pcC, pcX, rx, tx, nreads,
                   nacq, sinkDown, exitBy, exitCode, feederRet, published, sent, consumed, lapped, unsignalled>>

\* What follows r->wp = ( r->wp + 1 ) % NUM_RAW_BLOCKS in each driver.
AfterAdvance(driver) == IF driver = "file" THEN "read" ELSE "signal"

AdvanceWp ==
    /\ Running /\ pcP = "advance"
    /\ wp' = NextIndex(wp)
    /\ published' = Append(published, BlockView(rawBlock[wp]))
    /\ lapped' = (lapped \/ Len(published) + 1 - consumed >= NUM_RAW_BLOCKS)
    /\ unsignalled' = TRUE
    /\ pcP' = AfterAdvance(options.driver)
    /\ UNCHANGED <<usbVars, extentVars, statVars, startVars, flowVars, demuxVars, options, rp, rawBlock, ending, dataForClients, pcC, pcX, rx, tx,
                   nreads, nacq, sinkDown, exitBy, exitCode, feederRet, sent, consumed>>

\* pthread_mutex_unlock( &r->dataForClients )
SignalConsumer ==
    /\ Running /\ pcP = "signal"
    /\ dataForClients' = MutexUnlock(dataForClients)
    /\ unsignalled' = FALSE
    /\ pcP' = "read"
    /\ UNCHANGED <<usbVars, extentVars, statVars, startVars, flowVars, demuxVars, options, wp, rp, rawBlock, ending, pcC, pcX, rx, tx, nreads, nacq,
                   sinkDown, exitBy, exitCode, feederRet, published, sent, consumed, lapped>>

\* libusb_close / close after the read loop.
FeederRelease ==
    /\ Running /\ pcP = "release"
    /\ pcP' = IF options.driver = "file" THEN "return" ELSE "outer"
    /\ feederRet' = IF options.driver = "file"
                       THEN FeederResult(options.driver, FALSE) ELSE feederRet
    /\ usb' = IF options.driver = "usb" THEN UsbClose(usb) ELSE usb
    /\ UNCHANGED <<extentVars, statVars, startVars, flowVars, demuxVars, options, wp, rp, rawBlock, ending, dataForClients, pcC, pcX, rx, tx,
                   nreads, nacq, sinkDown, exitBy, exitCode, published, sent, consumed, lapped,
                   unsignalled>>

\* main: exit( xxxFeeder( &_r ) )
FeederReturn ==
    /\ Running /\ pcP = "return"
    /\ CallExit("return", feederRet)
    /\ UNCHANGED <<usbVars, extentVars, statVars, startVars, flowVars, demuxVars, options, wp, rp, rawBlock, ending, dataForClients, pcC, rx, tx,
                   nreads, nacq, sinkDown, feederRet, published, sent, consumed, lapped, unsignalled>>

ProducerNext ==
    \/ FeederStart \/ FeederOuter \/ FeederConnect \/ FeederConfig
    \/ ReadStart \/ ReadReturn \/ AdvanceWp \/ SignalConsumer
    \/ FeederRelease \/ FeederReturn

(***************************************************************************)
(* The distribution thread, _processBlocks.                                *)
(***************************************************************************)

\* while ( !r->ending )
ProcessOuter ==
    /\ Running /\ pcC = "outer"
    /\ pcC' = IF ending THEN "done" ELSE "inner"
    /\ UNCHANGED <<usbVars, extentVars, statVars, startVars, flowVars, demuxVars, options, wp, rp, rawBlock, ending, dataForClients, pcP, pcX, rx, tx,
                   nreads, nacq, sinkDown, exitBy, exitCode, feederRet, published, sent, consumed, lapped,
                   unsignalled>>

\* A test of the ring that never finds it empty.
RingEmptyNever(w, r) == FALSE

\* r->wp == r->rp
RingEmpty(w, r) == w = r

\* while ( r->wp == r->rp )
ProcessInner ==
    /\ Running /\ pcC = "inner"
    /\ pcC' = IF RingEmpty(wp, rp) THEN "lock" ELSE "test"
    /\ UNCHANGED <<usbVars, extentVars, statVars, startVars, flowVars, demuxVars, options, wp, rp, rawBlock, ending, dataForClients, pcP, pcX, rx, tx,
                   nreads, nacq, sinkDown, exitBy, exitCode, feederRet, published, sent, consumed, lapped,
                   unsignalled>>

\* pthread_mutex_lock( &r->dataForClients )
ProcessLock ==
    /\ Running /\ pcC = "lock"
    /\ MutexCanLock(dataForClients)
    /\ dataForClients' = MutexLock(dataForClients)
    /\ pcC' = "inner"
    /\ UNCHANGED <<usbVars, extentVars, statVars, startVars, flowVars, demuxVars, options, wp, rp, rawBlock, ending, pcP, pcX, rx, tx, nreads, nacq,
                   sinkDown, exitBy, exitCode, feederRet, published, sent, consumed, lapped, unsignalled>>

\* if ( r->rawBlock[r->rp].fillLevel ) ... if ( r->options->useTPIU )
AfterTest(fillLevel, useTPIU) ==
    IF fillLevel = 0 THEN "advance" ELSE IF useTPIU THEN "strip" ELSE "send"

ProcessTest ==
    /\ Running /\ pcC = "test"
    /\ pcC' = AfterTest(rawBlock[rp].fillLevel, options.useTPIU)
    /\ UNCHANGED <<usbVars, extentVars, statVars, startVars, flowVars, demuxVars, options, wp, rp, rawBlock, ending, dataForClients, pcP, pcX,
                   rx, tx, nreads, nacq, sinkDown, exitBy, exitCode, feederRet, published, sent, consumed,
                   lapped, unsignalled>>

\* A send of the whole buffer, whatever the fillLevel.
SendLenWhole(block) == TRANSFER_SIZE

\* The length nwclientSend is called with: r->rawBlock[r->rp].fillLevel.
SendLen(block) == block.fillLevel

\* nwclientSend( _r.n, fillLevel, buffer ) is called: the length is read.
ProcessSend ==
    /\ Running /\ pcC = "send"
    /\ tx' = [len |-> SendLen(rawBlock[rp])]
    /\ pcC' = "copy"
    /\ UNCHANGED <<usbVars, extentVars, statVars, startVars, flowVars, demuxVars, options, wp, rp, rawBlock, ending, dataForClients, pcP, pcX,
                   rx, nreads, nacq, sinkDown, exitBy, exitCode, feederRet, published, sent, consumed, lapped,
                   unsignalled>>

\* nwclientSend takes len bytes of r->rawBlock[r->rp].buffer and returns.
ProcessCopy ==
    /\ Running /\ pcC = "copy"
    /\ sent' = Append(sent, [len |-> tx.len,
                             bytes |-> SubSeq(rawBlock[rp].buffer, 1, ViewLen(tx.len))])
    /\ pcC' = "advance"
    /\ UNCHANGED <<usbVars, extentVars, statVars, startVars, flowVars, demuxVars, options, wp, rp, rawBlock, ending, dataForClients, pcP, pcX,
                   rx, tx, nreads, nacq, sinkDown, exitBy, exitCode, feederRet, published, consumed, lapped,
                   unsignalled>>

\* r->rp = ( r->rp + 1 ) % NUM_RAW_BLOCKS
ProcessAdvance ==
    /\ Running /\ pcC = "advance"
    /\ rp' = NextIndex(rp)
    /\ consumed' = consumed + 1
    /\ pcC' = "outer"
    /\ UNCHANGED <<usbVars, extentVars, statVars, startVars, flowVars, demuxVars, options, wp, rawBlock, ending, dataForClients, pcP, pcX, rx, tx,
                   nreads, nacq, sinkDown, exitBy, exitCode, feederRet, published, sent, lapped, unsignalled>>

(***************************************************************************)
(* Termination: SIGINT (_intHandler calls exit(0) on the thread that takes *)
(* the signal) and the atexit handler _doExit.                             *)
(***************************************************************************)
SigInt ==
    /\ pcX = "run" /\ pcM # "options"
    /\ pcX' = "atexit"
    /\ exitBy' = "sigint"
    /\ exitCode' = 0
    /\ \E t \in {"main"} \cup (IF "process" \in threads THEN {"dist"} ELSE {}) :
         /\ pcP' = IF t = "main" THEN "stopped" ELSE pcP
         /\ pcC' = IF t = "dist" THEN "stopped" ELSE pcC
    /\ UNCHANGED <<usbVars, extentVars, statVars, startVars, flowVars, demuxVars, options, wp, rp, rawBlock, ending, dataForClients, rx, tx, nreads,
                   nacq, sinkDown, feederRet, published, sent, consumed, lapped, unsignalled>>

\* _r.ending = true
DoExitEnding ==
    /\ pcX = "atexit"
    /\ ending' = TRUE
    /\ pcX' = "shutdown"
    /\ UNCHANGED <<usbVars, extentVars, statVars, startVars, flowVars, demuxVars, options, wp, rp, rawBlock, dataForClients, pcP, pcC, rx, tx, nreads,
                   nacq, sinkDown, exitBy, exitCode, feederRet, published, sent, consumed, lapped, unsignalled>>

\* nwclientShutdown( _r.n )
DoExitShutdown ==
    /\ pcX = "shutdown"
    /\ sinkDown' = TRUE
    /\ shut' = Append(shut, sinkN)
    /\ pcX' = "sleep"
    /\ UNCHANGED <<argv, opts, pcM, scan, sinkN, sinks, threads>>
    /\ UNCHANGED <<usbVars, extentVars, statVars, flowVars, demuxVars, options, wp, rp, rawBlock, ending, dataForClients, pcP, pcC, rx, tx,
                   nreads, nacq, exitBy, exitCode, feederRet, published, sent, consumed, lapped, unsignalled>>

\* usleep( 200 ), _doExit returns and the process ends with all its threads.
ProcessExit ==
    /\ pcX = "sleep"
    /\ pcX' = "exited"
    /\ UNCHANGED <<usbVars, extentVars, statVars, startVars, flowVars, demuxVars, options, wp, rp, rawBlock, ending, dataForClients, pcP, pcC, rx, tx,
                   nreads, nacq, sinkDown, exitBy, exitCode, feederRet, published, sent, consumed, lapped,
                   unsignalled>>

ExitNext == SigInt \/ DoExitEnding \/ DoExitShutdown \/ ProcessExit

(***************************************************************************)
(* Start-up: _processOptions and main up to the dispatch of the driver.    *)
(* An option of the command line is <<>> when it is not given and <<arg>>  *)
(* when it is given with the argument arg; a string is the sequence of its *)
(* characters, and the character after its last one is the NUL "".         *)
(***************************************************************************)
\* The characters the channel lists of the model are made of.
ListChars == {"0", "1", "2", "8", ",", "x"}
ChannelStrings == UNION {[1 .. k -> ListChars] : k \in 0 .. MaxListLen}

\* The command lines: -f <file>, -p <port>, -s <host>[:<port>] (the argument
\* is atoi of the port part, 0 when there is none), -t <list>, -l <port>.
CommandLines ==
    [f : BOOLEAN, p : BOOLEAN, s : {<<>>, <<0>>, <<19021>>},
     t : {<<>>} \cup {<<list>> : list \in ChannelStrings},
     l : {<<>>, <<1000>>}]

\* -s: seggerPort = atoi( port part ), and SEGGER_PORT if that is 0.
SeggerPortOf(s) == IF s = <<>> THEN 0 ELSE IF s[1] # 0 THEN s[1] ELSE SEGGER_PORT

\* struct Options after the getopt loop, from the static _options.
ParsedOptions(a) ==
    [file |-> a.f,
     port |-> a.p,
     seggerPort |-> SeggerPortOf(a.s),
     useTPIU |-> a.t # <<>>,
     channelList |-> IF a.t = <<>> THEN <<>> ELSE a.t[1],
     listenPort |-> IF a.l = <<>> THEN NWCLIENT_SERVER_PORT ELSE a.l[1]]

\* A check of the sources that lets -f pass together with another source.
OptionsOkFileAny(o) == ~(o.port /\ o.seggerPort # 0)

\* The checks at the end of _processOptions: what it returns.
OptionsOk(o) ==
    /\ ~(o.file /\ (o.port \/ o.seggerPort # 0))
    /\ ~(o.port /\ o.seggerPort # 0)

\* The driver main calls: the first of seggerPort, port, file that is set.
Dispatch(o) ==
    IF o.seggerPort # 0 THEN "segger"
    ELSE IF o.port THEN "serial"
    ELSE IF o.file THEN "file"
    ELSE "usb"

numHandlers == Len(handler)

\* main: the handler of channel x: its strippedBlock from calloc, its sink n
\* what nwclientStart returned.
NewHandler(x, sink) ==
    [channel |-> x, fillLevel |-> 0, buffer |-> [i \in 1 .. TRANSFER_SIZE |-> 0],
     spill |-> <<>>, n |-> sink]

\* *c, isdigit( *c ) and *c - '0'.
CharAt(list, c) == IF c <= Len(list) THEN list[c] ELSE ""
DigitChars == <<"0", "1", "2", "3", "4", "5", "6", "7", "8", "9">>
IsDigit(ch) == \E d \in 1 .. 10 : DigitChars[d] = ch
DigitValue(ch) == (CHOOSE d \in 1 .. 10 : DigitChars[d] = ch) - 1

\* while ( *c == ',' ) c++
RECURSIVE SkipCommas(_, _)
SkipCommas(list, c) ==
    IF CharAt(list, c) = "," THEN SkipCommas(list, c + 1) ELSE c

\* while ( isdigit( *c ) ) x = x * 10 + ( *c++ - '0' ).  x is an int: with
\* the lists of the model it stays far below 2^31.
RECURSIVE ScanDigits(_, _, _)
ScanDigits(list, c, x) ==
    IF IsDigit(CharAt(list, c))
      THEN ScanDigits(list, c + 1, x * 10 + DigitValue(CharAt(list, c)))
      ELSE [c |-> c, x |-> x]

\* if ( x ): the number is taken for a channel.
IsChannel(x) == x # 0

\* if ( ( x < 0 ) || ( x >= NUM_TPIU_CHANNELS ) )
OutOfRange(x) == x < 0 \/ x >= NUM_TPIU_CHANNELS

\* if ( !( _r.n = nwclientStart( ... ) ) ): is the sink there?
SinkOk(sink) == sink # 0

\* nwclientStart( port ): the sink, named by its port, or NULL (0).
StartOutcomes(port) == {port, 0}

\* genericsExit( -1, ... ) before atexit( _doExit ): the process ends at once.
ExitAtOnce(code) ==
    /\ pcP' = "stopped"
    /\ pcX' = "exited"
    /\ exitBy' = "fatal"
    /\ exitCode' = code

\* main: _processOptions, atexit( _doExit ), signal( SIGINT, _intHandler ).
StartOptions ==
    /\ Running /\ pcP = "main" /\ pcM = "options"
    /\ opts' = ParsedOptions(argv)
    /\ IF OptionsOk(ParsedOptions(argv))
         THEN /\ pcM' = IF ParsedOptions(argv).useTPIU THEN "channels" ELSE "sink"
              /\ UNCHANGED <<pcP, pcX, exitBy, exitCode>>
         ELSE /\ pcM' = "rejected"
              /\ ExitAtOnce(-1)
    /\ UNCHANGED <<argv, scan, sinkN, sinks, threads, shut>>
    /\ UNCHANGED <<usbVars, extentVars, statVars, flowVars, demuxVars, options, wp, rp, rawBlock, ending,
                   dataForClients, pcC, rx, tx, nreads, nacq, sinkDown, feederRet,
                   published, sent, consumed, lapped, unsignalled>>

\* One turn of while ( *c ) over the channel list: commas, digits, the test
\* of the character that follows, and the handler with its sink.
StartChannel ==
    /\ Running /\ pcP = "main" /\ pcM = "channels"
    /\ LET list == opts.channelList
           d == ScanDigits(list, SkipCommas(list, scan.c), scan.x)
           port == opts.listenPort + numHandlers
       IN  IF CharAt(list, scan.c) = ""
             THEN /\ pcM' = "threads"
                  /\ UNCHANGED <<scan, handler, hsent, sinks, pcP, pcX, exitBy, exitCode>>
           ELSE IF CharAt(list, d.c) \notin {"", ","}
             THEN /\ pcM' = "failed"
                  /\ scan' = d
                  /\ CallExit("fatal", -1)
                  /\ UNCHANGED <<handler, hsent, sinks>>
           ELSE IF ~IsChannel(d.x)
             THEN /\ scan' = d
                  /\ UNCHANGED <<pcM, handler, hsent, sinks, pcP, pcX, exitBy, exitCode>>
           ELSE IF OutOfRange(d.x)
             THEN /\ pcM' = "failed"
                  /\ scan' = d
                  /\ CallExit("fatal", -1)
                  /\ UNCHANGED <<handler, hsent, sinks>>
           ELSE \E sink \in StartOutcomes(port) :
                  /\ handler' = Append(handler, NewHandler(d.x % 256, sink))
                  /\ hsent' = Append(hsent, <<>>)
                  /\ sinks' = IF sink # 0 THEN sinks \cup {sink} ELSE sinks
                  /\ scan' = [c |-> d.c, x |-> 0]
                  /\ UNCHANGED <<pcM, pcP, pcX, exitBy, exitCode>>
    /\ UNCHANGED <<argv, opts, sinkN, threads, shut>>
    /\ UNCHANGED <<tpiu, strip, emitted>>
    /\ UNCHANGED <<usbVars, extentVars, statVars, flowVars, options, wp, rp, rawBlock, ending, dataForClients,
                   pcC, rx, tx, nreads, nacq, sinkDown, feederRet, published, sent,
                   consumed, lapped, unsignalled>>

\* Without TPIU: _r.n = nwclientStart( listenPort ), genericsExit( -1 ) if
\* there is no sink.
StartDefaultSink ==
    /\ Running /\ pcP = "main" /\ pcM = "sink"
    /\ \E sink \in StartOutcomes(opts.listenPort) :
         /\ sinkN' = sink
         /\ sinks' = IF sink # 0 THEN sinks \cup {sink} ELSE sinks
         /\ IF SinkOk(sink)
              THEN /\ pcM' = "threads"
                   /\ UNCHANGED <<pcP, pcX, exitBy, exitCode>>
              ELSE /\ pcM' = "failed"
                   /\ CallExit("fatal", -1)
    /\ UNCHANGED <<argv, opts, scan, threads, shut>>
    /\ UNCHANGED <<usbVars, extentVars, statVars, flowVars, demuxVars, options, wp, rp, rawBlock, ending,
                   dataForClients, pcC, rx, tx, nreads, nacq, sinkDown, feederRet,
                   published, sent, consumed, lapped, unsignalled>>

\* pthread_create( &_r.processThread, NULL, &_processBlocks, &_r )
StartThreads ==
    /\ Running /\ pcP = "main" /\ pcM = "threads"
    /\ threads' = threads \cup {"process"}
    /\ pcC' = "outer"
    /\ pcM' = "dispatch"
    /\ UNCHANGED <<argv, opts, scan, sinkN, sinks, shut>>
    /\ UNCHANGED <<usbVars, extentVars, statVars, flowVars, demuxVars, options, wp, rp, rawBlock, ending,
                   dataForClients, pcP, pcX, rx, tx, nreads, nacq, sinkDown, exitBy,
                   exitCode, feederRet, published, sent, consumed, lapped, unsignalled>>

\* main: exit( xxxFeeder( &_r ) ): the driver is entered.
StartDispatch ==
    /\ Running /\ pcP = "main" /\ pcM = "dispatch"
    /\ options' = [options EXCEPT !.driver = Dispatch(opts)]
    /\ pcM' = "feeder"
    /\ pcP' = "start"
    /\ UNCHANGED <<argv, opts, scan, sinkN, sinks, threads, shut>>
    /\ UNCHANGED <<usbVars, extentVars, statVars, flowVars, demuxVars, wp, rp, rawBlock, ending,
                   dataForClients, pcC, pcX, rx, tx, nreads, nacq, sinkDown, exitBy,
                   exitCode, feederRet, published, sent, consumed, lapped, unsignalled>>

\* The statistics before any block: _r is static, intervalBytes is 0.
StatsIdle ==
    /\ intervalBytes = 0
    /\ stats = [pcR |-> "sleep", pcA |-> "idle", reg |-> 0, fill |-> 0, sampled |-> 0,
                accounted |-> 0, nblocks |-> 0, nsamples |-> 0]

\* The channel list that names the channels ids (each one digit).
RECURSIVE CsvOf(_)
CsvOf(ids) ==
    IF ids = <<>> THEN <<>>
    ELSE <<DigitChars[ids[1] + 1]>> \o (IF Len(ids) > 1 THEN <<",">> ELSE <<>>)
         \o CsvOf(Tail(ids))

\* The command line that selects a driver and, with TPIU, the channels ids.
CommandLineFor(driver, useTPIU, ids) ==
    [f |-> driver = "file", p |-> driver = "serial",
     s |-> IF driver = "segger" THEN <<0>> ELSE <<>>,
     t |-> IF useTPIU THEN <<CsvOf(ids)>> ELSE <<>>,
     l |-> <<>>]

\* main has reached the dispatch of the driver and every nwclientStart gave
\* a sink: what start-up leaves behind for the command line of options.
StartDone ==
    /\ argv = CommandLineFor(options.driver, options.useTPIU, options.channels)
    /\ opts = ParsedOptions(argv)
    /\ pcM = "feeder"
    /\ scan = [c |-> Len(opts.channelList) + 1, x |-> 0]
    /\ sinkN = IF options.useTPIU THEN 0 ELSE opts.listenPort
    /\ sinks = IF options.useTPIU
                THEN {opts.listenPort + i - 1 : i \in 1 .. Len(options.channels)}
                ELSE {opts.listenPort}
    /\ threads = {"process"}
    /\ shut = <<>>
    /\ exitCode = 0 /\ feederRet = 0
    /\ usb = NoUsb
    /\ extent = NoExtent
    /\ StatsIdle

InitStart ==
    /\ argv \in CommandLines
    /\ opts = ParsedOptions([f |-> FALSE, p |-> FALSE, s |-> <<>>, t |-> <<>>, l |-> <<>>])
    /\ pcM = "options"
    /\ scan = [c |-> 1, x |-> 0]
    /\ sinkN = 0
    /\ sinks = {}
    /\ threads = {}
    /\ shut = <<>>
    /\ options = [driver |-> "none", fileTerminate |-> FALSE, useTPIU |-> argv.t # <<>>,
                  channels |-> <<>>]
    /\ wp = 0 /\ rp = 0
    /\ rawBlock = [i \in Slots |-> ZeroBlock]
    /\ ending = FALSE
    /\ dataForClients = "free"
    /\ pcP = "main" /\ pcC = "none" /\ pcX = "run"
    /\ rx = [ret |-> "ok", n |-> 0, fill |-> 0]
    /\ tx = [len |-> 0]
    /\ nreads = 0 /\ nacq = 0
    /\ sinkDown = FALSE
    /\ exitBy = "none" /\ exitCode = 0 /\ feederRet = 0
    /\ published = <<>> /\ sent = <<>>
    /\ consumed = 0
    /\ lapped = FALSE
    /\ unsignalled = FALSE
    /\ handler = <<>>
    /\ tpiu = [byteCount |-> 0, failed |-> FALSE]
    /\ strip = NoStrip
    /\ hsent = <<>>
    /\ emitted = <<>>
    /\ FlowIdle
    /\ StatsIdle
    /\ usb = NoUsb
    /\ extent = NoExtent

StartNext ==
    \/ StartOptions \/ StartChannel \/ StartDefaultSink \/ StartThreads \/ StartDispatch

NextStart == StartNext \/ ExitNext

SpecStart == InitStart /\ [][NextStart]_vars

(***************************************************************************)
(* SpecRing: pass-through mode, every driver.                              *)
(***************************************************************************)
InitRing ==
    /\ options \in [driver : Drivers, fileTerminate : BOOLEAN, useTPIU : {FALSE},
                    channels : {<<>>}]
    /\ options.fileTerminate => options.driver = "file"
    /\ wp = 0 /\ rp = 0
    /\ rawBlock = [s \in Slots |-> ZeroBlock]
    /\ ending = FALSE
    /\ dataForClients = "free"
    /\ pcP = "start" /\ pcC = "outer" /\ pcX = "run"
    /\ rx = [ret |-> "ok", n |-> 0, fill |-> 0]
    /\ tx = [len |-> 0]
    /\ nreads = 0 /\ nacq = 0
    /\ sinkDown = FALSE
    /\ exitBy = "none"
    /\ published = <<>> /\ sent = <<>>
    /\ consumed = 0
    /\ lapped = FALSE
    /\ unsignalled = FALSE
    /\ handler = <<>>
    /\ tpiu = [byteCount |-> 0, failed |-> FALSE]
    /\ strip = NoStrip
    /\ hsent = <<>>
    /\ emitted = <<>>
    /\ FlowIdle
    /\ StartDone

PassThroughNext ==
    \/ ProcessOuter \/ ProcessInner \/ ProcessLock \/ ProcessTest \/ ProcessSend \/ ProcessCopy
    \/ ProcessAdvance

NextRing == ProducerNext \/ PassThroughNext \/ ExitNext

SpecRing == InitRing /\ [][NextRing]_vars

(***************************************************************************)
(* TPIU mode: _stripTPIU and _purgeBlock.                                  *)
(***************************************************************************)
StreamIds == {1, 2, 3}
\* The channel lists of -t the model starts from.
ChannelLists == {<<>>, <<1>>, <<1, 2>>, <<2, 2>>}

\* TPIUPump on one byte: the frame position moves on and the frame completes
\* on its last byte; a sync pattern or an error restarts the frame.
PumpOutcomes(t) ==
    { IF t.byteCount + 1 = TPIU_PACKET_LEN
        THEN [event |-> "RXEDPACKET", byteCount |-> 0]
        ELSE [event |-> "RXING", byteCount |-> t.byteCount + 1],
      [event |-> "NEWSYNC", byteCount |-> 0],
      [event |-> "ERROR", byteCount |-> 0] }

\* TPIUGetPacket: the stream ids of the tuples of one frame.
PacketShapes ==
    UNION { [1 .. n -> StreamIds] : n \in 0 .. (TPIU_PACKET_LEN - 1) }

\* The packet with its data bytes; a data byte is named by its place in the
\* sequence of all tuples given out.
Packet(shape, base) == [g \in 1 .. Len(shape) |-> [s |-> shape[g], d |-> base + g]]

\* What TPIUGetPacket( &r->t, &p ) leaves in p.  On success, the packet the
\* decoder gives out.  On failure p is not written: it still holds the packet
\* retrieved before in this call, or, when there was none, whatever the stack
\* held: a packet of bytes that are not the decoder's (data 0), or a len past
\* the array, which makes the loop over p read outside it (crash).
GarbagePackets == {<<>>} \cup {<<[s |-> x, d |-> 0]>> : x \in StreamIds}
GetPacketOutcomes(st) ==
    {[ok |-> TRUE, crash |-> FALSE, p |-> Packet(shape, Len(emitted))] :
        shape \in {sh \in PacketShapes : Len(emitted) + Len(sh) <= MaxTuples}}
    \cup (IF st.pInit
            THEN {[ok |-> FALSE, crash |-> FALSE, p |-> st.p]}
            ELSE {[ok |-> FALSE, crash |-> FALSE, p |-> q] : q \in GarbagePackets}
                 \cup {[ok |-> FALSE, crash |-> TRUE, p |-> <<>>]})

\* _stripTPIU is entered.  (got is what the last TPIUGetPacket returned.)
StripEnter ==
    /\ Running /\ pcC = "strip"
    /\ strip' = [bytes |-> rawBlock[rp].fillLevel, cachedChannel |-> -1, chIndex |-> 0,
                 h |-> -1, p |-> <<>>, g |-> 0, pInit |-> FALSE, got |-> FALSE]
    /\ pcC' = "pump"
    /\ UNCHANGED <<handler, tpiu, hsent, emitted>>
    /\ UNCHANGED <<usbVars, extentVars, statVars, startVars, flowVars, ringData>>

\* while ( bytes-- ) switch ( TPIUPump( &r->t, *c++ ) ), and TPIUGetPacket on
\* TPIU_EV_RXEDPACKET.
StripPump ==
    /\ Running /\ pcC = "pump"
    /\ IF strip.bytes = 0
         THEN /\ pcC' = "purge"
              /\ UNCHANGED <<strip, tpiu, emitted, pcX, exitBy, exitCode>>
         ELSE \E o \in PumpOutcomes(tpiu) :
                IF o.event = "RXEDPACKET"
                  THEN \E r \in GetPacketOutcomes(strip) :
                         /\ tpiu' = [byteCount |-> o.byteCount,
                                     failed |-> (tpiu.failed \/ ~r.ok)]
                         /\ strip' = [strip EXCEPT !.bytes = @ - 1, !.g = 0, !.p = r.p,
                                                   !.pInit = (@ \/ r.ok), !.got = r.ok]
                         /\ emitted' = IF r.ok THEN emitted \o r.p ELSE emitted
                         /\ pcC' = IF r.crash THEN "crashed" ELSE "tuple"
                         /\ pcX' = IF r.crash THEN "exited" ELSE pcX
                         /\ exitBy' = IF r.crash THEN "crash" ELSE exitBy
                         /\ exitCode' = IF r.crash THEN 139 ELSE exitCode
                  ELSE /\ tpiu' = [tpiu EXCEPT !.byteCount = o.byteCount]
                       /\ strip' = [strip EXCEPT !.bytes = @ - 1]
                       /\ emitted' = emitted
                       /\ pcC' = "pump"
                       /\ UNCHANGED <<pcX, exitBy, exitCode>>
    /\ UNCHANGED <<usbVars, extentVars, handler, hsent, statVars, startVars, flowVars>>
    /\ UNCHANGED <<options, wp, rp, rawBlock, ending, dataForClients, pcP, rx, tx, nreads, nacq,
                   sinkDown, feederRet, published, sent, consumed, lapped, unsignalled>>

\* A search that stops one handler early and so ends on the last handler.
RECURSIVE FindHandlerOffByOne(_, _, _)
FindHandlerOffByOne(hs, s, chIndex) ==
    IF chIndex + 1 < Len(hs) /\ hs[chIndex + 1].channel # s
      THEN FindHandlerOffByOne(hs, s, chIndex + 1)
      ELSE chIndex

\* The search for the channel: the index of the first handler whose channel
\* is s, or the number of handlers.
RECURSIVE FindHandler(_, _, _)
FindHandler(hs, s, chIndex) ==
    IF chIndex < Len(hs) /\ hs[chIndex + 1].channel # s
      THEN FindHandler(hs, s, chIndex + 1)
      ELSE chIndex

\* A cache that is filled by the first search and never searched again.
LookupSticky(st, hs, s) ==
    IF st.cachedChannel = -1
      THEN [st EXCEPT !.cachedChannel = s,
                      !.chIndex = FindHandler(hs, s, 0),
                      !.h = FindHandler(hs, s, 0)]
      ELSE st

\* The cache: cachedChannel, chIndex and h after the tuple's stream id is seen.
Lookup(st, hs, s) ==
    IF st.cachedChannel # s
      THEN [st EXCEPT !.cachedChannel = s,
                      !.chIndex = FindHandler(hs, s, 0),
                      !.h = FindHandler(hs, s, 0)]
      ELSE st

\* Is the byte put into the handler's buffer?
Steered(st, hs) == st.chIndex # Len(hs)

\* h->strippedBlock->buffer[h->strippedBlock->fillLevel++] = d.  A store at an
\* index past the buffer lands in the memory after it (spill).
Store(hb, d) ==
    IF hb.fillLevel < TRANSFER_SIZE
      THEN [hb EXCEPT !.buffer[hb.fillLevel + 1] = d, !.fillLevel = @ + 1]
      ELSE [hb EXCEPT !.spill = Append(@, d), !.fillLevel = @ + 1]

\* One turn of for ( g = 0; g < p.len; g++ )
StripTuple ==
    /\ Running /\ pcC = "tuple"
    /\ IF strip.g < Len(strip.p)
         THEN LET t == strip.p[strip.g + 1]
                  st == Lookup(strip, handler, t.s)
              IN  /\ strip' = [st EXCEPT !.g = @ + 1]
                  /\ handler' = IF Steered(st, handler)
                                  THEN [handler EXCEPT ![st.h + 1] = Store(@, t.d)]
                                  ELSE handler
                  /\ pcC' = "tuple"
         ELSE /\ pcC' = "pump"
              /\ UNCHANGED <<strip, handler>>
    /\ UNCHANGED <<tpiu, hsent, emitted>>
    /\ UNCHANGED <<usbVars, extentVars, statVars, startVars, flowVars, ringData>>

\* What nwclientSend( h->n, fillLevel, buffer ) is given: the buffer and, past
\* its end, the memory after it, which holds what was stored there (intact)
\* or anything else.
\* Data bytes are numbered from 1; 0 stands for a byte that is not the one
\* stored.
SendView(hb, intact) ==
    [len |-> hb.fillLevel,
     bytes |-> SubSeq(hb.buffer, 1, ViewLen(hb.fillLevel))
               \o [i \in 1 .. Len(hb.spill) |-> IF intact THEN hb.spill[i] ELSE 0]]

\* Does the loop of _purgeBlock move on to the next handler?
PurgeStep(hb) == IF hb.fillLevel # 0 THEN 1 ELSE 0

\* _purgeBlock: while ( i-- ) { if ( h->strippedBlock->fillLevel ) { send;
\* fillLevel = 0; h++; } }
RECURSIVE PurgeLoop(_, _, _, _, _)
PurgeLoop(hs, snt, h, i, intact) ==
    IF i = 0
      THEN [handler |-> hs, hsent |-> snt]
      ELSE IF hs[h + 1].fillLevel # 0
        THEN PurgeLoop([hs EXCEPT ![h + 1].fillLevel = 0, ![h + 1].spill = <<>>],
                       [snt EXCEPT ![h + 1] = Append(@, SendView(hs[h + 1], intact))],
                       h + PurgeStep(hs[h + 1]), i - 1, intact)
        ELSE PurgeLoop(hs, snt, h + PurgeStep(hs[h + 1]), i - 1, intact)

ProcessPurge ==
    /\ Running /\ pcC = "purge"
    /\ \E intact \in BOOLEAN :
         LET r == PurgeLoop(handler, hsent, 0, numHandlers, intact)
         IN  /\ handler' = r.handler
             /\ hsent' = r.hsent
    /\ pcC' = "advance"
    /\ UNCHANGED <<tpiu, strip, emitted>>
    /\ UNCHANGED <<usbVars, extentVars, statVars, startVars, flowVars, ringData>>

\* A driver publishes a block: fillLevel is stored, wp advanced and the
\* consumer signalled (the bytes themselves are what TPIUPump decides on).
FeedBlock ==
    /\ Running /\ nreads < MaxReads
    /\ NextIndex(wp) # rp
    /\ \E n \in 0 .. TRANSFER_SIZE :
         rawBlock' = [rawBlock EXCEPT ![wp].fillLevel = n]
    /\ wp' = NextIndex(wp)
    /\ nreads' = nreads + 1
    /\ dataForClients' = MutexUnlock(dataForClients)
    /\ UNCHANGED <<usbVars, extentVars, statVars, startVars, flowVars, demuxVars, options, rp, ending, pcP, pcC, pcX, rx, tx, nacq, sinkDown,
                   exitBy, exitCode, feederRet, published, sent, consumed, lapped, unsignalled>>

InitDemux ==
    /\ options \in [driver : {"usb"}, fileTerminate : {FALSE}, useTPIU : {TRUE},
                    channels : ChannelLists]
    /\ wp = 0 /\ rp = 0
    /\ rawBlock = [s \in Slots |-> ZeroBlock]
    /\ ending = FALSE
    /\ dataForClients = "free"
    /\ pcP = "read" /\ pcC = "outer" /\ pcX = "run"
    /\ rx = [ret |-> "ok", n |-> 0, fill |-> 0]
    /\ tx = [len |-> 0]
    /\ nreads = 0 /\ nacq = 0
    /\ sinkDown = FALSE
    /\ exitBy = "none"
    /\ published = <<>> /\ sent = <<>>
    /\ consumed = 0
    /\ lapped = FALSE
    /\ unsignalled = FALSE
    /\ handler = [i \in 1 .. Len(options.channels) |->
                     NewHandler(options.channels[i], NWCLIENT_SERVER_PORT + i - 1)]
    /\ tpiu = [byteCount |-> 0, failed |-> FALSE]
    /\ strip = NoStrip
    /\ hsent = [i \in 1 .. Len(options.channels) |-> <<>>]
    /\ emitted = <<>>
    /\ FlowIdle
    /\ StartDone

DemuxNext ==
    \/ ProcessOuter \/ ProcessInner \/ ProcessLock \/ ProcessTest \/ StripEnter
    \/ StripPump \/ StripTuple \/ ProcessPurge \/ ProcessAdvance

NextDemux == FeedBlock \/ DemuxNext

SpecDemux == InitDemux /\ [][NextDemux]_vars

(***************************************************************************)
(* Statistics: r->intervalBytes += fillLevel in _processBlocks against the *)
(* interval reporter _checkInterval, which runs in a thread of its own.    *)
(* intervalBytes is a plain uint64_t: the addition is a load and a store,  *)
(* and the reporter's sample and its clear are two accesses.               *)
(***************************************************************************)
\* _processBlocks, r->intervalBytes += r->rawBlock[r->rp].fillLevel of a
\* non-empty block: intervalBytes is loaded.
AccountLoad ==
    /\ stats.pcA = "idle" /\ stats.nblocks < MaxBlocks
    /\ \E fillLevel \in {1, TRANSFER_SIZE} :
         stats' = [stats EXCEPT !.pcA = "loaded", !.reg = intervalBytes,
                                !.fill = fillLevel]
    /\ UNCHANGED <<usbVars, extentVars, intervalBytes, ringVars, demuxVars, flowVars, startVars>>

\* ... and the sum is stored (uint64_t: the totals of the model stay far
\* below 2^64, nothing wraps).
AccountStore ==
    /\ stats.pcA = "loaded"
    /\ intervalBytes' = stats.reg + stats.fill
    /\ stats' = [stats EXCEPT !.pcA = "idle", !.accounted = @ + stats.fill,
                              !.nblocks = @ + 1]
    /\ UNCHANGED <<usbVars, extentVars, ringVars, demuxVars, flowVars, startVars>>

\* _checkInterval: snapInterval = r->intervalBytes * 1000 / intervalReportTime
CheckIntervalSample ==
    /\ stats.pcR = "sleep" /\ ~ending /\ stats.nsamples < MaxSamples
    /\ stats' = [stats EXCEPT !.pcR = "clear", !.sampled = @ + intervalBytes,
                              !.nsamples = @ + 1]
    /\ UNCHANGED <<usbVars, extentVars, intervalBytes, ringVars, demuxVars, flowVars, startVars>>

\* _checkInterval: r->intervalBytes = 0
CheckIntervalClear ==
    /\ stats.pcR = "clear"
    /\ intervalBytes' = 0
    /\ stats' = [stats EXCEPT !.pcR = "sleep"]
    /\ UNCHANGED <<usbVars, extentVars, ringVars, demuxVars, flowVars, startVars>>

InitStats == InitRing /\ options.driver = "usb"

NextStats == AccountLoad \/ AccountStore \/ CheckIntervalSample \/ CheckIntervalClear

SpecStats == InitStats /\ [][NextStats]_vars

(***************************************************************************)
(* Properties.                                                             *)
(***************************************************************************)
IsPrefix(a, b) == Len(a) <= Len(b) /\ SubSeq(b, 1, Len(a)) = a

\* The concatenation of the bytes of a sequence of blocks.
RECURSIVE Bytes(_)
Bytes(blocks) ==
    IF blocks = <<>> THEN <<>> ELSE blocks[1].bytes \o Bytes(Tail(blocks))

\* The published blocks the consumer does not skip.
IsNonEmpty(b) == b.len # 0
NonEmpty(blocks) == SelectSeq(blocks, IsNonEmpty)

\* The bytes of a sequence of blocks that a driver read from its source.
IsRead(x) == x # ZeroByte
ReadBytes(blocks) == SelectSeq(Bytes(blocks), IsRead)

\* No read of the source has failed so far.
NoFailedRead == \A k \in 1 .. Len(published) : published[k].len >= 0

\* C1: in pass-through mode, as long as the producer has never been
\* NUM_RAW_BLOCKS or more blocks ahead of the consumer, the blocks passed to
\* the default sink's send are, block by block and so byte by byte, the first
\* of the non-empty blocks the driver published: none is skipped, reordered,
\* altered or sent twice.
PassThroughPrefix ==
    (~options.useTPIU /\ ~lapped) =>
        /\ IsPrefix(sent, NonEmpty(published))
        /\ IsPrefix(Bytes(sent), Bytes(published))

\* C1 witness: without lapping, the consumer has sent more blocks than the
\* ring has slots, a short one and a full one among them.
PassThroughPrefixWitness ==
    /\ ~options.useTPIU /\ ~lapped
    /\ Len(sent) > NUM_RAW_BLOCKS
    /\ \E i, j \in 1 .. Len(sent) : sent[i].len = 1 /\ sent[j].len = TRANSFER_SIZE

\* C2: no byte read by the driver is passed to send more than once (stated
\* for the behaviours in which every read succeeded).
NoByteTwice ==
    NoFailedRead =>
        \A i, j \in 1 .. Len(ReadBytes(sent)) :
            i # j => ReadBytes(sent)[i] # ReadBytes(sent)[j]

\* C6: the consumer never delivers bytes of a block read earlier than a block
\* of which it has already delivered bytes (stated for the behaviours in
\* which every read succeeded).
DeliveryInOrder ==
    NoFailedRead =>
        \A i, j \in 1 .. Len(ReadBytes(sent)) :
            i < j => ReadBytes(sent)[i][1] <= ReadBytes(sent)[j][1]

\* C8: every driver has released dataForClients after an advance of wp by
\* the time it starts its next read.
SignalAfterAdvance == pcP = "read" => ~unsignalled

\* C10: file source with -e: when the sink is shut down after end of file,
\* every non-empty block the driver published has been passed to the sink, in
\* order.
FileTerminateDelivers ==
    (/\ options.driver = "file" /\ options.fileTerminate
     /\ exitBy = "return" /\ sinkDown /\ NoFailedRead)
        => sent = NonEmpty(published)

(***************************************************************************)
(* The ring under the drivers that release dataForClients (USB, SEGGER,    *)
(* serial), with both threads scheduled fairly: the consumer thread takes  *)
(* its next step whenever it has one, and the producer thread completes    *)
(* the store, the advance of wp and the release that follow a read that    *)
(* has returned.  Nothing is assumed of the reads themselves.              *)
(***************************************************************************)
InitLive == InitRing /\ options.driver # "file"

FairScheduling ==
    /\ WF_vars(PassThroughNext)
    /\ WF_vars(ReadReturn)
    /\ WF_vars(AdvanceWp)
    /\ WF_vars(SignalConsumer)

SpecLive == InitLive /\ [][NextRing]_vars /\ FairScheduling

\* C9: with a driver that signals (USB, SEGGER, serial), no lapping and fair
\* scheduling, whenever wp # rp the consumer eventually processes ring[rp]
\* and reaches the advance of rp, wherever it was (blocked on dataForClients
\* included), unless the process has begun to exit: no wake-up is lost.
ConsumerWaitBounded ==
    (wp # rp /\ ~lapped /\ pcX = "run")
        ~> (pcC = "advance" \/ lapped \/ pcX # "run")

\* C9 witness: the consumer is about to block on dataForClients, which it
\* already holds, while the producer has just made wp differ from rp.
ConsumerWaitBoundedWitness ==
    /\ options.driver # "file"
    /\ pcC = "lock" /\ dataForClients = "held"
    /\ wp # rp /\ ~lapped /\ pcX = "run"

(***************************************************************************)
(* Properties of TPIU mode.                                                *)
(***************************************************************************)
\* The data bytes the decoder has given out with stream id s, in order.
RECURSIVE EmittedFor(_, _)
EmittedFor(tuples, s) ==
    IF tuples = <<>> THEN <<>>
    ELSE IF tuples[1].s = s
      THEN <<tuples[1].d>> \o EmittedFor(Tail(tuples), s)
      ELSE EmittedFor(Tail(tuples), s)

HandlerIds == 1 .. numHandlers

HasHandler(s) == \E h \in HandlerIds : handler[h].channel = s

\* C3: when a block has been processed and rp is about to advance, every
\* handler's buffer is empty again and all that was steered to the handler
\* has been passed to its sink (stated for the behaviours in which every
\* TPIUGetPacket succeeded).
PurgeFlushesAll ==
    (options.useTPIU /\ pcC = "advance" /\ ~tpiu.failed) =>
        \A h \in HandlerIds :
            /\ handler[h].fillLevel = 0
            /\ Bytes(hsent[h]) = EmittedFor(emitted, handler[h].channel)

\* C4: no handler's fillLevel ever exceeds TRANSFER_SIZE (stated for the
\* behaviours in which every TPIUGetPacket succeeded).
HandlerFillBounded ==
    ~tpiu.failed => \A h \in HandlerIds : handler[h].fillLevel <= TRANSFER_SIZE

\* C5: the bytes passed to a handler's sink are the first of the data bytes
\* the decoder gave out with the handler's stream id, in the decoder's order
\* (stated for the behaviours in which every TPIUGetPacket succeeded).
ChannelOrderPreserved ==
    ~tpiu.failed => \A h \in HandlerIds :
        IsPrefix(Bytes(hsent[h]), EmittedFor(emitted, handler[h].channel))

\* C7: the step of _stripTPIU on a tuple whose stream id matches no
\* configured handler changes no handler's buffer or fillLevel and sends
\* nothing.
UnknownStreamDropped ==
    [][ (/\ pcC = "tuple" /\ strip.g < Len(strip.p)
         /\ ~HasHandler(strip.p[strip.g + 1].s))
        => (handler' = handler /\ hsent' = hsent) ]_vars

\* C7 witness: the second tuple of a packet, of a stream id without handler,
\* has just been stepped over, right after a tuple of a configured channel
\* was stored.
UnknownStreamDroppedWitness ==
    /\ pcC = "tuple" /\ strip.g = 2 /\ Len(strip.p) = 2
    /\ HasHandler(strip.p[1].s) /\ ~HasHandler(strip.p[2].s)
    /\ \E h \in HandlerIds : handler[h].fillLevel > 0

(***************************************************************************)
(* The ring under every driver with both threads scheduled fairly (the     *)
(* same scheduling as SpecLive, the file driver included).                 *)
(***************************************************************************)
SpecFair == InitRing /\ [][NextRing]_vars /\ FairScheduling

\* C11: file source without -e: whenever a block the file driver published
\* has not been sent yet, the consumer eventually has sent every published
\* block (unless the producer lapped it or the process began to exit), also
\* once the consumer has caught up with the producer before.
FileFollowDelivers ==
    (/\ options.driver = "file" /\ ~options.fileTerminate
     /\ Len(NonEmpty(published)) > Len(sent) /\ ~lapped /\ pcX = "run")
        ~> (Len(sent) >= Len(NonEmpty(published)) \/ lapped \/ pcX # "run")

\* C13: every block published by an advance of wp has a fillLevel in
\* 0 .. TRANSFER_SIZE.
PublishedFillInRange ==
    \A k \in 1 .. Len(published) : published[k].len \in 0 .. TRANSFER_SIZE

ReadBlock(o, id) == [len |-> o.fill, bytes |-> [i \in 1 .. o.fill |-> <<id, i>>]]

\* C12: SEGGER: a read that returns <= 0 publishes nothing and leaves wp
\* alone, the driver then closes the socket and goes back to the head of its
\* outer loop (which ends only on ending or a failed socket call); a read
\* that returns data is followed by the advance of wp, and every advance of
\* wp publishes exactly the block of the read just made.  So the published
\* blocks are the successful reads, in order, nothing between them.
SeggerReconnect ==
    [][ options.driver = "segger" =>
          /\ (pcP = "store" /\ pcP' # pcP /\ rx.fill <= 0) =>
                 (pcP' \in {"release", "stopped"} /\ wp' = wp /\ published' = published)
          /\ (pcP = "store" /\ pcP' # pcP /\ rx.fill > 0) =>
                 (pcP' \in {"advance", "stopped"} /\ published' = published)
          /\ (pcP = "release" /\ pcP' # pcP) =>
                 (pcP' \in {"outer", "stopped"} /\ wp' = wp /\ published' = published)
          /\ (pcP = "outer" /\ pcP' = "return") => (ending \/ nacq' # nacq)
          /\ (published' # published) =>
                 /\ pcP = "advance" /\ rx.fill > 0
                 /\ wp' = NextIndex(wp)
                 /\ published' = Append(published, ReadBlock(rx, nreads)) ]_vars

\* C12 witness: the SEGGER driver has published the first and the third read
\* of the behaviour: the second one failed and the driver reconnected.
SeggerReconnectWitness ==
    /\ options.driver = "segger"
    /\ Len(published) = 2
    /\ published[1] = ReadBlock([fill |-> TRANSFER_SIZE], 1)
    /\ published[2] = ReadBlock([fill |-> 1], 3)

\* C15: the distribution loop is left only when ending is set: no data error
\* (TPIU ERROR event, failed TPIUGetPacket, unknown stream id, empty block)
\* ends the thread.
DistributionNeverStops ==
    (options.useTPIU /\ pcC \in {"done", "crashed"}) => ending

(***************************************************************************)
(* Properties of start-up and of the exit path.                            *)
(***************************************************************************)
\* How many of -f, -p and -s the command line gives.
SourcesGiven(a) ==
    (IF a.f THEN 1 ELSE 0) + (IF a.p THEN 1 ELSE 0) + (IF a.s # <<>> THEN 1 ELSE 0)

\* C21: option processing fails, and the process ends at once with a
\* non-zero code, exactly when more than one of -f, -p, -s is given; when the
\* driver is entered it is the file driver for -f, the serial driver for -p,
\* the SEGGER driver for -s and the USB driver when none of them is given.
SourceSelection ==
    /\ pcM # "options" => (pcM = "rejected" <=> SourcesGiven(argv) > 1)
    /\ pcM = "rejected" => (pcX = "exited" /\ exitCode # 0 /\ options.driver = "none")
    /\ pcM = "feeder" =>
         /\ argv.f => options.driver = "file"
         /\ argv.p => options.driver = "serial"
         /\ argv.s # <<>> => options.driver = "segger"
         /\ SourcesGiven(argv) = 0 => options.driver = "usb"

\* C21 witness: -s with a host and no port is the only source given, with a
\* channel list, and the SEGGER driver has been entered.
SourceSelectionWitness ==
    /\ argv.s = <<0>> /\ ~argv.f /\ ~argv.p /\ argv.t # <<>>
    /\ pcM = "feeder" /\ options.driver = "segger"

\* The channel list as the command line gives it: its characters are legal,
\* and the IDs are the numbers between its commas.
LegalList(list) == \A i \in 1 .. Len(list) : IsDigit(list[i]) \/ list[i] = ","

RECURSIVE Decimal(_)
Decimal(digits) ==
    IF digits = <<>> THEN 0
    ELSE 10 * Decimal(SubSeq(digits, 1, Len(digits) - 1)) + DigitValue(digits[Len(digits)])

RECURSIVE ListedIds(_)
ListedIds(list) ==
    IF list = <<>> THEN <<>>
    ELSE LET commas == {i \in 1 .. Len(list) : list[i] = ","}
             k == IF commas = {} THEN Len(list) + 1
                  ELSE CHOOSE i \in commas : \A j \in commas : i <= j
             first == SubSeq(list, 1, k - 1)
         IN  (IF first = <<>> THEN <<>> ELSE <<Decimal(first)>>)
             \o ListedIds(SubSeq(list, k + 1, Len(list)))

ValidList(list) ==
    /\ LegalList(list)
    /\ \A i \in 1 .. Len(ListedIds(list)) : ListedIds(list)[i] \in 1 .. 127

\* main has gone past the channel list and the sinks.
StartedUp == pcM \in {"threads", "dispatch", "feeder"}

\* Every call of nwclientStart so far gave a sink.
AllBound == \A h \in 1 .. Len(handler) : handler[h].n # 0

\* C22: once start-up is over (and every nwclientStart gave a sink): without
\* TPIU the one sink started is that of listenPort; with TPIU the i-th ID of
\* the list (from 0) has the i-th handler, whose channel is that ID and whose
\* sink is that of listenPort + i.
ListenPorts ==
    (StartedUp /\ AllBound) =>
        IF opts.useTPIU
          THEN /\ LegalList(opts.channelList)
               /\ Len(handler) = Len(ListedIds(opts.channelList))
               /\ \A i \in 1 .. Len(handler) :
                    /\ handler[i].channel = ListedIds(opts.channelList)[i]
                    /\ handler[i].n = opts.listenPort + (i - 1)
          ELSE sinks = {opts.listenPort} /\ sinkN = opts.listenPort /\ handler = <<>>

\* C23: with -t, start-up gets past the channel list only if every character
\* of the list is a digit or a comma and every ID is in 1..127 (otherwise it
\* exits with a non-zero code), and then there is one handler per ID, each
\* with a channel in 1..127.
ChannelListValidated ==
    /\ (opts.useTPIU /\ StartedUp) =>
         /\ ValidList(opts.channelList)
         /\ Len(handler) = Len(ListedIds(opts.channelList))
    /\ \A h \in 1 .. Len(handler) : handler[h].channel \in 1 .. 127
    /\ (pcM = "failed" /\ pcX = "exited") => exitCode # 0

\* C24: the distribution thread is started only when every sink is there:
\* the default sink without TPIU, the sink of every handler with TPIU.
BindFailureExits ==
    "process" \in threads =>
        /\ ~opts.useTPIU => sinkN # 0
        /\ \A h \in 1 .. Len(handler) : handler[h].n # 0

\* The sinks nwclientShutdown was called with.
ShutSinks == {shut[i] : i \in 1 .. Len(shut)} \ {0}

\* C26: when the process has ended through the exit handler, every sink that
\* was started has been shut down, and no sink that was not started has.
ExitShutsEverySink ==
    (pcX = "exited" /\ exitBy \in {"sigint", "fatal", "return"} /\ pcM # "rejected")
        => ShutSinks = sinks

\* C25: a process that has ended after SIGINT, or after the file driver with
\* -e came back from the end of the file, has ended with exit code 0 (stated
\* for the runs in which one thread only called exit).
NormalExitCodeZero ==
    (/\ pcX = "exited"
     /\ \/ exitBy = "sigint" /\ ~(pcP = "stopped" /\ pcC = "stopped")
        \/ exitBy = "return" /\ options.driver = "file" /\ options.fileTerminate)
        => exitCode = 0

\* C30: while the process is still there after nwclientShutdown( _r.n ), the
\* distribution thread is not inside nwclientSend( _r.n, ... ): no send is
\* under way when the sink is shut down and none is started afterwards.
NoSendAfterShutdown == ~(sinkDown /\ pcX = "sleep" /\ pcC = "copy")

\* C27: wp and rp stay in 0..NUM_RAW_BLOCKS-1 and move by one modulo
\* NUM_RAW_BLOCKS; a step that writes the ring writes slot wp only, and what
\* is sent is read from slot rp; and while the producer has never been
\* NUM_RAW_BLOCKS blocks ahead, a read of the source that is filling slot wp
\* never coincides with the consumer testing, sending or copying slot rp
\* unless the two slots differ.
RingSlotExclusive ==
    /\ [](wp \in Slots /\ rp \in Slots)
    /\ []((~lapped /\ pcP = "store" /\ pcC \in {"test", "send", "copy"}) => wp # rp)
    /\ [][ /\ wp' # wp => wp' = (wp + 1) % NUM_RAW_BLOCKS
           /\ rp' # rp => rp' = (rp + 1) % NUM_RAW_BLOCKS
           /\ \A i \in Slots \ {wp} : rawBlock'[i] = rawBlock[i]
           /\ sent' # sent =>
                sent' = Append(sent, [len |-> tx.len,
                                      bytes |-> SubSeq(rawBlock[rp].buffer, 1,
                                                       ViewLen(tx.len))]) ]_vars

\* C27 witness: without lapping and after wp has wrapped around, the third
\* read of the source is filling one slot while the consumer copies the other.
RingSlotExclusiveWitness ==
    /\ ~lapped /\ pcP = "store" /\ pcC = "copy"
    /\ Len(published) = NUM_RAW_BLOCKS /\ nreads = NUM_RAW_BLOCKS + 1
    /\ wp # rp /\ wp = 0

StatisticsLoseNothing ==
    (stats.pcA = "idle" /\ stats.pcR = "sleep")
        => stats.sampled + intervalBytes = stats.accounted

\* C31: while the packet of an RXEDPACKET event whose TPIUGetPacket reported
\* failure is current, no step of _stripTPIU iterates over it and no handler
\* buffer or fill level changes.
FailedPacketAppendsNothing ==
    [][(pcC = "tuple" /\ ~strip.got) => (handler' = handler /\ strip'.g = strip.g)]_vars

\* C32: the USB driver has at most one device handle open at any time, and
\* none when it is back at the device search: every handle it opened was
\* closed before it opens a device again.
UsbHandleReleased ==
    options.driver = "usb" =>
        /\ Cardinality(usb.open) <= 1
        /\ pcP = "connect" => usb.open = {}

(***************************************************************************)
(* ORBFLOW (oflow.c): OFLOWEncode, OFLOWPump and the COBS callback         *)
(* _pumpcb.  Bytes are uint8_t: 0 .. 255, sums wrap at 256.                *)
(***************************************************************************)
\* The byte values messages and frames are made of.
ByteSample == {0, 1, 128, 255}
Messages(n) == UNION {[1 .. k -> ByteSample] : k \in 0 .. n}

\* A sum that wraps at 128.
AddU7(sum, x) == (sum + x) % 128

\* uint8_t sum; sum += x
AddU8(sum, x) == (sum + x) % 256

\* for ( i = 0; i < len; i++ ) sum += inputMsg[i]
RECURSIVE SumU8(_, _)
SumU8(sum, msg) ==
    IF msg = <<>> THEN sum ELSE SumU8(AddU8(sum, Head(msg)), Tail(msg))

\* A checksum byte that is the ones' complement of the sum.
BackMatterOnes(sum) == 255 - sum

\* uint8_t backMatter[1] = { 256 - sum }
BackMatter(sum) == (256 - sum) % 256

\* COBS.  The bytes before the first zero of data.
RECURSIVE RunLen(_)
RunLen(data) ==
    IF data = <<>> \/ Head(data) = 0 THEN 0 ELSE 1 + RunLen(Tail(data))

\* Byte stuffing: each run of non-zero bytes is preceded by its length plus
\* one, and the zero that ended it is left out (runs stay below 254 bytes
\* here).
RECURSIVE COBSStuff(_)
COBSStuff(data) ==
    LET n == RunLen(data)
    IN  <<n + 1>> \o SubSeq(data, 1, n)
        \o (IF n = Len(data) THEN <<>> ELSE COBSStuff(SubSeq(data, n + 2, Len(data))))

\* COBSEncode( front, 1, back, 1, inputMsg, len, o ): front, message and back
\* stuffed as one, ended by the sync byte 0.
COBSEncode(front, back, inputMsg) == COBSStuff(front \o inputMsg \o back) \o <<0>>

\* The decoder's inverse step: a length byte, its run, and the zero it stands
\* for when more follows.
RECURSIVE COBSUnstuff(_)
COBSUnstuff(enc) ==
    IF enc = <<>> THEN <<>>
    ELSE LET c == Head(enc)
             rest == Tail(enc)
             after == SubSeq(rest, c, Len(rest))
         IN  SubSeq(rest, 1, c - 1)
             \o (IF after = <<>> THEN <<>> ELSE <<0>> \o COBSUnstuff(after))

\* COBSPump: the frames completed by the sync bytes of incoming, in order;
\* acc is the frame being assembled.  Successive syncs complete nothing.
RECURSIVE COBSPump(_, _)
COBSPump(incoming, acc) ==
    IF incoming = <<>> THEN <<>>
    ELSE IF Head(incoming) = 0
      THEN (IF acc = <<>> THEN <<>> ELSE <<COBSUnstuff(acc)>>)
           \o COBSPump(Tail(incoming), <<>>)
      ELSE COBSPump(Tail(incoming), Append(acc, Head(incoming)))

\* OFLOWEncode( channel, tstamp, inputMsg, len, o ); tstamp is not used.
OFLOWEncode(channel, inputMsg) ==
    COBSEncode(<<channel>>, <<BackMatter(SumU8(channel, inputMsg))>>, inputMsg)

\* A test that lets a frame of one byte through.
IsShortNone(p) == Len(p) < 1

\* _pumpcb: if ( p->len < 2 )
IsShort(p) == Len(p) < 2

\* A decoder that calls every checksum good.
GoodAlways(sum) == TRUE

\* _pumpcb: t->f.good = ( sum == 0 )
Good(sum) == sum = 0

\* _pumpcb: t->f filled from the decoded frame p.
OFLOWFrame(p) ==
    [len |-> Len(p) - 2,
     tag |-> p[1],
     sum |-> p[Len(p)],
     d |-> SubSeq(p, 2, Len(p) - 1),
     good |-> Good(AddU8(SumU8(p[1], SubSeq(p, 2, Len(p) - 1)), p[Len(p)]))]

\* Is the packet callback ( t->cb )( &t->f, t->param ) called for p?
Delivered(p) == ~IsShort(p)

\* _pumpcb( p, t ): the state of t after the call, the number of calls of the
\* packet callback, and the record of the call.
PumpCb(st, p) ==
    IF IsShort(p)
      THEN [oflow |-> [st.oflow EXCEPT !.perror = @ + 1],
            ncb |-> st.ncb,
            last |-> [st.last EXCEPT !.p = p, !.called = Delivered(p)]]
      ELSE [oflow |-> [perror |-> st.oflow.perror + (IF OFLOWFrame(p).good THEN 0 ELSE 1),
                       f |-> OFLOWFrame(p)],
            ncb |-> IF Delivered(p) THEN st.ncb + 1 ELSE st.ncb,
            last |-> [st.last EXCEPT !.p = p, !.called = Delivered(p)]]

\* COBSPump( &t->c, incoming, len, _pumpcb, t ): _pumpcb on every frame
\* completed.
RECURSIVE PumpAll(_, _)
PumpAll(st, frames) ==
    IF frames = <<>> THEN st ELSE PumpAll(PumpCb(st, Head(frames)), Tail(frames))

\* The record of an ORBFLOW operation as it starts.
CallStart(from) ==
    [from |-> from, p |-> <<>>, perror |-> oflow.perror, ncb |-> ncb, called |-> FALSE]

\* OFLOWEncode writes the frame of a message into o.
FlowEncode ==
    /\ wire = <<>> /\ ncalls < MaxCalls
    /\ \E channel \in ByteSample, inputMsg \in Messages(MaxMsgLen) :
         /\ wire' = OFLOWEncode(channel, inputMsg)
         /\ flowIn' = [channel |-> channel, inputMsg |-> inputMsg]
    /\ ncalls' = ncalls + 1
    /\ UNCHANGED <<usbVars, extentVars, oflow, last, ncb, ringVars, demuxVars, startVars, statVars>>

\* OFLOWPump( t, incoming, len, packetRxed, param ) on the frame OFLOWEncode
\* wrote.
FlowPump ==
    /\ wire # <<>>
    /\ LET r == PumpAll([oflow |-> oflow, ncb |-> ncb, last |-> CallStart("encode")],
                        COBSPump(wire, <<>>))
       IN  /\ oflow' = r.oflow
           /\ ncb' = r.ncb
           /\ last' = r.last
    /\ wire' = <<>>
    /\ UNCHANGED <<usbVars, extentVars, flowIn, ncalls, ringVars, demuxVars, startVars, statVars>>

\* OFLOWPump on bytes of any other origin: COBS completes a frame p, of any
\* length and content, and calls _pumpcb.
PumpCompletion ==
    /\ wire = <<>> /\ ncalls < MaxCalls
    /\ \E p \in Messages(MaxFrameLen) :
         LET r == PumpCb([oflow |-> oflow, ncb |-> ncb, last |-> CallStart("stream")], p)
         IN  /\ oflow' = r.oflow
             /\ ncb' = r.ncb
             /\ last' = r.last
    /\ flowIn' = NoEncode
    /\ ncalls' = ncalls + 1
    /\ UNCHANGED <<usbVars, extentVars, wire, ringVars, demuxVars, startVars, statVars>>

InitFlow == InitRing /\ options.driver = "usb"

NextFlow == FlowEncode \/ FlowPump \/ PumpCompletion

SpecFlow == InitFlow /\ [][NextFlow]_vars

(***************************************************************************)
(* OFLOWgetFrameExtent (oflow.c): while ( !OFLOWisEOFRAME( inputEnc ) &&   *)
(* --len ) inputEnc++; return inputEnc.  inputEnc is kept as the offset    *)
(* from the pointer the call was given.                                    *)
(***************************************************************************)
ExtentBytes == {COBS_SYNC_CHAR, 1, 255}

\* The memory the caller owns.
ExtentBuffers == UNION {[1 .. k -> ExtentBytes] : k \in 0 .. MaxExtentLen}

\* The calls: a buffer and a len that is at most the size of the buffer.
ExtentCalls ==
    UNION {{[pc |-> "test", mem |-> m, n |-> n, inputEnc |-> 0, len |-> n,
             examined |-> {}] : n \in 0 .. Len(m)} : m \in ExtentBuffers}

\* COBS_SYNC_CHAR == *inputEnc, for the byte inputEnc points to.
OFLOWisEOFRAME(b) == b = COBS_SYNC_CHAR

\* *inputEnc: the byte of the buffer, or, past the end of the buffer, a read
\* outside the object: any byte, or the call is killed.
ExtentReads(e) ==
    IF e.inputEnc < Len(e.mem)
      THEN {[crash |-> FALSE, b |-> e.mem[e.inputEnc + 1]]}
      ELSE {[crash |-> FALSE, b |-> x] : x \in ExtentBytes} \cup {[crash |-> TRUE, b |-> 0]}

\* The loop condition: !OFLOWisEOFRAME( inputEnc ) && --len
ExtentTest ==
    /\ extent.pc = "test"
    /\ extent.inputEnc < Len(extent.mem) + MaxOverrun
    /\ \E r \in ExtentReads(extent) :
         extent' =
           IF r.crash
             THEN [extent EXCEPT !.pc = "crashed", !.examined = @ \cup {extent.inputEnc}]
           ELSE IF OFLOWisEOFRAME(r.b)
             THEN [extent EXCEPT !.pc = "return", !.examined = @ \cup {extent.inputEnc}]
           ELSE [extent EXCEPT !.len = @ - 1,
                               !.pc = IF extent.len - 1 # 0 THEN "step" ELSE "return",
                               !.examined = @ \cup {extent.inputEnc}]
    /\ UNCHANGED <<ringVars, demuxVars, flowVars, startVars, statVars, usbVars>>

\* The loop body: inputEnc++
ExtentStep ==
    /\ extent.pc = "step"
    /\ extent' = [extent EXCEPT !.inputEnc = @ + 1, !.pc = "test"]
    /\ UNCHANGED <<ringVars, demuxVars, flowVars, startVars, statVars, usbVars>>

\* return inputEnc
ExtentReturn ==
    /\ extent.pc = "return"
    /\ extent' = [extent EXCEPT !.pc = "done"]
    /\ UNCHANGED <<ringVars, demuxVars, flowVars, startVars, statVars, usbVars>>

InitExtent ==
    /\ extent \in ExtentCalls
    /\ options = [driver |-> "usb", fileTerminate |-> FALSE, useTPIU |-> FALSE,
                  channels |-> <<>>]
    /\ wp = 0 /\ rp = 0
    /\ rawBlock = [s \in Slots |-> ZeroBlock]
    /\ ending = FALSE
    /\ dataForClients = "free"
    /\ pcP = "start" /\ pcC = "outer" /\ pcX = "run"
    /\ rx = [ret |-> "ok", n |-> 0, fill |-> 0]
    /\ tx = [len |-> 0]
    /\ nreads = 0 /\ nacq = 0
    /\ sinkDown = FALSE
    /\ exitBy = "none" /\ exitCode = 0 /\ feederRet = 0
    /\ published = <<>> /\ sent = <<>>
    /\ consumed = 0
    /\ lapped = FALSE
    /\ unsignalled = FALSE
    /\ handler = <<>>
    /\ tpiu = [byteCount |-> 0, failed |-> FALSE]
    /\ strip = NoStrip
    /\ hsent = <<>>
    /\ emitted = <<>>
    /\ FlowIdle
    /\ StatsIdle
    /\ usb = NoUsb
    /\ argv = CommandLineFor(options.driver, options.useTPIU, options.channels)
    /\ opts = ParsedOptions(argv)
    /\ pcM = "feeder"
    /\ scan = [c |-> 1, x |-> 0]
    /\ sinkN = opts.listenPort
    /\ sinks = {opts.listenPort}
    /\ threads = {"process"}
    /\ shut = <<>>

NextExtent == ExtentTest \/ ExtentStep \/ ExtentReturn

SpecExtent == InitExtent /\ [][NextExtent]_vars

(***************************************************************************)
(* Properties of OFLOWgetFrameExtent.                                      *)
(***************************************************************************)
\* The offsets of the SYNC bytes among the first n bytes of mem.
SyncsIn(mem, n) == {i \in 0 .. (n - 1) : OFLOWisEOFRAME(mem[i + 1])}

\* The least element of a non-empty set of offsets.
FirstOf(S) == CHOOSE i \in S : \A j \in S : i <= j

\* C33: a call of OFLOWgetFrameExtent with len >= 0 never examines a byte at
\* an offset of len or more (so it ends after at most len bytes and is never
\* killed), and it returns the offset of the first SYNC byte among the first
\* len bytes if there is one, otherwise an offset it has examined.
FrameExtentInRange ==
    /\ extent.pc # "crashed"
    /\ \A i \in extent.examined : i < extent.n
    /\ extent.pc = "done" =>
          IF SyncsIn(extent.mem, extent.n) # {}
            THEN extent.inputEnc = FirstOf(SyncsIn(extent.mem, extent.n))
            ELSE extent.inputEnc \in extent.examined

(***************************************************************************)
(* Properties of ORBFLOW.                                                  *)
(***************************************************************************)
\* The sum of the bytes of a sequence, not wrapped.
RECURSIVE Total(_)
Total(bytes) == IF bytes = <<>> THEN 0 ELSE Head(bytes) + Total(Tail(bytes))

\* Does the 8-bit wrapping sum of the bytes come to 0?
SumsToZero(bytes) == Total(bytes) % 256 = 0

\* c is what some content that sums to zero becomes when one byte of it is
\* replaced by a different value: at some place i the one byte value v that
\* would bring the sum of c to zero is not the byte c has there.
OneByteCorrupted(c) ==
    \E i \in 1 .. Len(c) :
        LET v == (c[i] + 256 * Len(c) - Total(c)) % 256
        IN  v # c[i] /\ SumsToZero([c EXCEPT ![i] = v])

\* C16: when the frame OFLOWEncode wrote for (channel, message) has been
\* pumped, the packet callback was called exactly once, with tag = channel,
\* the message as payload and good set; the decoded content is channel,
\* message and a checksum byte, and its 8-bit wrapping sum is 0.
OrbflowRoundTrip ==
    (last.from = "encode" /\ wire = <<>>) =>
        /\ ncb = last.ncb + 1
        /\ last.called
        /\ oflow.f.tag = flowIn.channel
        /\ oflow.f.len = Len(flowIn.inputMsg)
        /\ oflow.f.d = flowIn.inputMsg
        /\ oflow.f.good
        /\ oflow.f.sum \in 0 .. 255
        /\ last.p = <<flowIn.channel>> \o flowIn.inputMsg \o <<oflow.f.sum>>
        /\ SumsToZero(last.p)

\* C16 witness: a round trip of a message of full length with a zero byte in
\* it, where channel and message alone already sum to 0 modulo 256.
OrbflowRoundTripWitness ==
    /\ last.from = "encode" /\ wire = <<>>
    /\ Len(flowIn.inputMsg) = MaxMsgLen
    /\ \E i \in 1 .. MaxMsgLen : flowIn.inputMsg[i] = 0
    /\ flowIn.channel # 0
    /\ SumsToZero(<<flowIn.channel>> \o flowIn.inputMsg)
    /\ oflow.f.good

\* C17: a decoded frame that differs in exactly one byte (tag, payload or
\* checksum) from a content whose 8-bit wrapping sum is 0 is given good ==
\* false.
CorruptionDetected ==
    (last.from # "none" /\ Len(last.p) >= 2 /\ OneByteCorrupted(last.p)) =>
        (last.called /\ oflow.f.tag = last.p[1] /\ ~oflow.f.good)

\* C17 witness: the frame decoded last is 1, 0, 255 with its payload byte
\* replaced by 128: the decoder has set good to false.
CorruptionDetectedWitness ==
    /\ last.from = "stream"
    /\ last.p = <<1, 128, 255>>
    /\ ~oflow.f.good

\* C18: a COBS completion of length 0 or 1 adds exactly 1 to the error
\* counter, the packet callback is not called and the frame held is left as
\* it was; a completion of length >= 2 is decoded and delivered whatever
\* came before.
ShortFrameCounted ==
    /\ (last.from = "stream" /\ Len(last.p) < 2) =>
           (oflow.perror = last.perror + 1 /\ ncb = last.ncb /\ ~last.called)
    /\ (last.from = "stream" /\ Len(last.p) >= 2) =>
           (ncb = last.ncb + 1 /\ last.called /\ oflow.f.tag = last.p[1])

\* C18 witness: a frame of one byte has just been counted, after a frame
\* that was delivered.
ShortFrameCountedWitness ==
    /\ last.from = "stream" /\ Len(last.p) = 1
    /\ ncb = 1 /\ oflow.perror = last.perror + 1

\* C19: of a COBS completion of length >= 2 the decoder reports the first
\* byte as tag, the last as sum and the bytes between as payload; a non-zero
\* wrapping sum over all bytes gives good == false and adds exactly 1 to the
\* error counter, a zero sum gives good == true and leaves the counter.
ChecksumReported ==
    (last.from = "stream" /\ Len(last.p) >= 2) =>
        /\ oflow.f.tag = last.p[1]
        /\ oflow.f.sum = last.p[Len(last.p)]
        /\ oflow.f.len = Len(last.p) - 2
        /\ oflow.f.d = SubSeq(last.p, 2, Len(last.p) - 1)
        /\ oflow.f.good = SumsToZero(last.p)
        /\ oflow.perror = last.perror + (IF SumsToZero(last.p) THEN 0 ELSE 1)

\* C19 witness: a frame of full length whose bytes sum to 128 has been
\* decoded; the error counter has gone up by one.
ChecksumReportedWitness ==
    /\ last.from = "stream" /\ Len(last.p) = MaxFrameLen
    /\ Total(last.p) % 256 = 128
    /\ oflow.perror = last.perror + 1

\* C20: the packet callback is not called for a frame whose checksum does
\* not match.
BadChecksumDropped ==
    (last.from = "stream" /\ Len(last.p) >= 2 /\ ~SumsToZero(last.p)) =>
        (~last.called /\ ncb = last.ncb)

====
